---- MODULE Spec2Model ----
(***************************************************************************)
(* Hold-to-drive teleop (controller.py): the sampling loop ui_loop, the    *)
(* heartbeat thread control_loop, and main's final stop flush; and the      *)
(* wheel-command resolver of ROSBOT.py's ui_loop.                          *)
(*                                                                         *)
(* Time is counted in units of 0.02 s, the largest unit in which both      *)
(* KEY_HOLD_S (0.18 s) and DEADMAN_S (0.50 s) are whole numbers.           *)
(* Velocities are counted in hundredths (0.35 m/s = 35, 1.5 rad/s = 150).  *)
(***************************************************************************)
EXTENDS Integers, Sequences, FiniteSets

\* ---- program constants -------------------------------------------------
KEY_HOLD_S == 9
DEADMAN_S == 25
MAX_X == 35
MAX_Z == 150
FRAME_T == 13
\* time.sleep(0.02) of ui_loop and time.sleep(1.0 / SEND_HZ) of control_loop,
\* in whole units of 0.02 s
UI_SLEEP == 1
HB_SLEEP == 1

\* ---- bounds of the model -----------------------------------------------
\* number of times the clock is read later than at its previous reading
MaxAdvance == 2
\* number of key codes the terminal delivers in one run
MaxKeys == 2

\* time.time() when the module is loaded: a positive epoch time, so that the
\* initial expiries 0.0 lie in the past
StartTime == 1


\* key codes: ord('w'), ord('s'), ord('a'), ord('d'), ord('x'), ord('q') and
\* one representative of every other code
Keys == {"w", "s", "a", "d", "x", "q", "other"}

Batches == UNION {[1..n -> Keys] : n \in 0..MaxKeys}

VARIABLES
    clock,              \* the latest reading of time.time()
    lock,               \* threading.Lock(): "free", or the thread holding it
    x_cmd, z_cmd, last_any_key_time,
    w_exp, s_exp, a_exp, d_exp,
    pc_ui,              \* position of the main thread (main and ui_loop)
    ui,                 \* locals of ui_loop
    flush,              \* frames main handed to ser.write after ui_loop
    pc_hb,              \* position of the heartbeat thread
    hb,                 \* locals of control_loop, msg of its send_cmd call
    adv,                \* number of readings that advanced the clock
    nkeys,              \* number of key codes delivered so far
    paced,              \* the run has atomic sampling ticks less than
                        \* DEADMAN_S - KEY_HOLD_S apart (it never changes)
    seen                \* time of the latest sampling tick that drained a
                        \* Forward (w), Back (s), Stop (x), directional (dir)
                        \* or any (any) code; 0: never; and the number
                        \* (stops) of latest ticks in a row that each
                        \* drained a Stop code; and the time (cut) of
                        \* the latest heartbeat tick that applied the
                        \* deadman override; 0: never

\* between two readings of time.time() the clock advances by one of these;
\* in a paced run they are the longest the pace allows between two sampling
\* ticks and, for the time before the first tick and after the last, one
\* longer than the deadman window
Delays ==
    IF paced THEN {0, 1, KEY_HOLD_S, DEADMAN_S - KEY_HOLD_S - 1, DEADMAN_S + 1}
    ELSE {0, 1, KEY_HOLD_S, DEADMAN_S}

shared == <<x_cmd, z_cmd, last_any_key_time>>
holds == <<w_exp, s_exp, a_exp, d_exp>>
vars == <<clock, lock, x_cmd, z_cmd, last_any_key_time, w_exp, s_exp, a_exp,
          d_exp, pc_ui, ui, flush, pc_hb, hb, adv, nkeys, paced, seen>>

\* ---- time.time() -------------------------------------------------------
\* a reading of the clock, d after the latest one
Time(d) == clock + d

\* the readings a loop can make when it read prev at the top of its
\* previous iteration and then slept: time.sleep returns no sooner than asked
AfterSleep(prev, sleep) ==
    {d \in Delays : prev > 0 => Time(d) >= prev + sleep}

\* the count of advancing readings after a reading d later
Advance(d) == IF d > 0 THEN adv + 1 ELSE adv

\* ---- the pace of the sampling loop ------------------------------------
\* one iteration of ui_loop, from its reading of the time to its sleep or
\* its return, is under way
UiInTick ==
    pc_ui \in {"lock", "wx", "wz", "wt", "render", "qlock", "qx", "qz", "qt"}

\* in a paced run a reading t of the clock made while ui_loop sleeps is less
\* than DEADMAN_S - KEY_HOLD_S after the latest sampling tick: the next tick,
\* which is not later than t, is that close
InPace(t) ==
    (paced /\ pc_ui = "tick" /\ ui.now > 0) =>
        t - ui.now < DEADMAN_S - KEY_HOLD_S

\* in a paced run an iteration of ui_loop is atomic: it starts when the
\* heartbeat is outside its locked copy, the heartbeat takes no step before
\* it ends, and the clock does not advance within it
UiMayTick == paced => lock = "free"
HbMayRun == paced => ~UiInTick
WithinTick(d) == paced => d = 0

\* ---- send_cmd ----------------------------------------------------------
\* the frame with its two velocities exchanged
send_cmdSwapped(x, z, ok) == [T |-> FRAME_T, X |-> z, Z |-> x, ok |-> ok]

\* msg of send_cmd(ser, x, z); ok: ser.write returned, otherwise it raised
send_cmd(x, z, ok) == [T |-> FRAME_T, X |-> x, Z |-> z, ok |-> ok]

\* ---- ui_loop: draining the key codes ------------------------------------
\* a code that is none of the six keys taken for Stop
ObserveElseStop(st, ch, now) ==
    LET g == [st EXCEPT !.got_any = TRUE]
    IN  CASE ch = "w" -> [g EXCEPT !.w_exp = now + KEY_HOLD_S]
          [] ch = "s" -> [g EXCEPT !.s_exp = now + KEY_HOLD_S]
          [] ch = "a" -> [g EXCEPT !.a_exp = now + KEY_HOLD_S]
          [] ch = "d" -> [g EXCEPT !.d_exp = now + KEY_HOLD_S]
          [] ch = "q" -> [g EXCEPT !.quit_now = TRUE]
          [] OTHER -> [g EXCEPT !.stop_now = TRUE]

\* one pass of the while ch != -1 loop body
Observe(st, ch, now) ==
    LET g == [st EXCEPT !.got_any = TRUE]
    IN  CASE ch = "w" -> [g EXCEPT !.w_exp = now + KEY_HOLD_S]
          [] ch = "s" -> [g EXCEPT !.s_exp = now + KEY_HOLD_S]
          [] ch = "a" -> [g EXCEPT !.a_exp = now + KEY_HOLD_S]
          [] ch = "d" -> [g EXCEPT !.d_exp = now + KEY_HOLD_S]
          [] ch = "x" -> [g EXCEPT !.stop_now = TRUE]
          [] ch = "q" -> [g EXCEPT !.quit_now = TRUE]
          [] OTHER -> g

RECURSIVE Drain(_, _, _)
Drain(st, batch, now) ==
    IF batch = <<>> THEN st
    ELSE Drain(Observe(st, Head(batch), now), Tail(batch), now)

\* a key held one unit past its expiry
IsHeldLate(now, exp) == now <= exp + 1

\* a key released at its expiry instead of after it
IsHeldStrict(now, exp) == now < exp

\* "held" status from the timers
IsHeld(now, exp) == now <= exp

\* the turn keys looked at only when the forward axis is idle
ResolveChained(w_on, s_on, a_on, d_on, stop_now) ==
    IF stop_now THEN [x |-> 0, z |-> 0]
    ELSE IF w_on /\ ~s_on THEN [x |-> MAX_X, z |-> 0]
    ELSE IF s_on /\ ~w_on THEN [x |-> 0 - MAX_X, z |-> 0]
    ELSE IF a_on /\ ~d_on THEN [x |-> 0, z |-> MAX_Z]
    ELSE IF d_on /\ ~a_on THEN [x |-> 0, z |-> 0 - MAX_Z]
    ELSE [x |-> 0, z |-> 0]

\* the stop flag left out of the resolver
ResolveNoStop(w_on, s_on, a_on, d_on, stop_now) ==
    [x |-> IF w_on /\ ~s_on THEN MAX_X
           ELSE IF s_on /\ ~w_on THEN 0 - MAX_X
           ELSE 0,
     z |-> IF a_on /\ ~d_on THEN MAX_Z
           ELSE IF d_on /\ ~a_on THEN 0 - MAX_Z
           ELSE 0]

\* the command computed from the held flags and the stop flag
Resolve(w_on, s_on, a_on, d_on, stop_now) ==
    IF stop_now THEN [x |-> 0, z |-> 0]
    ELSE [x |-> IF w_on /\ ~s_on THEN MAX_X
                ELSE IF s_on /\ ~w_on THEN 0 - MAX_X
                ELSE 0,
          z |-> IF a_on /\ ~d_on THEN MAX_Z
                ELSE IF d_on /\ ~a_on THEN 0 - MAX_Z
                ELSE 0]

\* ---- ROSBOT.py ---------------------------------------------------------
\* the wheel speeds named in the body of class speed, in hundredths
speed_LOW == 0
speed_MED == 25
speed_HIGH == 50

\* the left and right wheel command ROSBOT.py's ui_loop computes from the
\* held flags and the stop flag: one chain of if / elif over the four keys
ResolveWheels(w_on, s_on, a_on, d_on, stop_now) ==
    IF stop_now THEN [L |-> 0, R |-> 0]
    ELSE IF w_on /\ ~s_on THEN [L |-> speed_HIGH, R |-> speed_HIGH]
    ELSE IF s_on /\ ~w_on THEN [L |-> 0 - speed_MED, R |-> 0 - speed_MED]
    ELSE IF a_on /\ ~d_on THEN [L |-> 0 - speed_HIGH, R |-> speed_HIGH]
    ELSE IF d_on /\ ~a_on THEN [L |-> speed_HIGH, R |-> 0 - speed_HIGH]
    ELSE [L |-> speed_LOW, R |-> speed_LOW]

\* ---- ui_loop: after the held flags --------------------------------------
\* the holds left alone on stop
ClearHoldsKeep(stop_now, exp) == exp

\* the expiry after the resolve step: stop clears the holds
ClearHolds(stop_now, exp) == IF stop_now THEN 0 ELSE exp

\* got_any after the resolve step: stop counts as activity
Activity(got_any, stop_now) == got_any \/ stop_now

\* the timestamp written by no tick
StampNever(got_any, now, old) == old

\* the timestamp written by every tick
StampAlways(got_any, now, old) == now

\* the activity timestamp the locked write of a sampling tick leaves
StampActivity(got_any, now, old) == IF got_any THEN now ELSE old

\* the override kept on once it has been applied
DeadmanLatched(now, t_any, v) ==
    IF now - t_any > DEADMAN_S \/ seen.cut > 0 THEN 0 ELSE v

\* the override with the hold window as its window
DeadmanAtHold(now, t_any, v) == IF now - t_any > KEY_HOLD_S THEN 0 ELSE v

\* the override one unit late
DeadmanLate(now, t_any, v) == IF now - t_any > DEADMAN_S + 1 THEN 0 ELSE v

\* control_loop's deadman override of one component of the snapshot
Deadman(now, t_any, v) == IF now - t_any > DEADMAN_S THEN 0 ELSE v

\* the exception of a failed write ends the thread
AfterSendRaise(ok) == IF ok THEN "sleep" ELSE "dead"

\* where control_loop goes on after send_cmd returned (ok) or raised
AfterSend(ok) == "sleep"

\* where main goes on after the first send_cmd of the flush
AfterFlush1(ok) == IF ok THEN "pause" ELSE "done"

\* the quit branch leaves the command of the Quit tick in place
QuitCommandKept == [x |-> ui.new_x, z |-> ui.new_z]

\* the command the quit branch stores: x_cmd = 0.0, z_cmd = 0.0
QuitCommand == [x |-> 0, z |-> 0]

\* a lock that never makes a thread wait
CanAcquireAlways(l) == TRUE

\* with lock: the lock can be taken when no thread holds it
CanAcquire(l) == l = "free"

\* a with block that ends with its thread still holding the lock
ReleaseKept(holder) == holder

\* the lock when the with block of its holder ends
Release(holder) == "free"

\* the locals before their first assignment
UiIdle ==
    [now |-> 0, got_any |-> FALSE, stop_now |-> FALSE, quit_now |-> FALSE,
     w_on |-> FALSE, s_on |-> FALSE, a_on |-> FALSE, d_on |-> FALSE,
     new_x |-> 0, new_z |-> 0, batch |-> <<>>]
HbIdle == [now |-> 0, x |-> 0, z |-> 0, t_any |-> 0, msg |-> <<>>]

\* the history of drained codes after a tick at now
Seen(batch, now) ==
    LET has(K) == \E i \in 1..Len(batch) : batch[i] \in K
    IN  [w |-> IF has({"w"}) THEN now ELSE seen.w,
         s |-> IF has({"s"}) THEN now ELSE seen.s,
         x |-> IF has({"x"}) THEN now ELSE seen.x,
         dir |-> IF has({"w", "s", "a", "d"}) THEN now ELSE seen.dir,
         any |-> IF has(Keys) THEN now ELSE seen.any,
         stops |-> IF has({"x"}) THEN seen.stops + 1 ELSE 0,
         cut |-> seen.cut]

\* the history after a heartbeat tick at now with activity timestamp t_any
Cut(now, t_any) ==
    [seen EXCEPT !.cut = IF now - t_any > DEADMAN_S THEN now ELSE @]

\* ---- initial state ------------------------------------------------------
Init ==
    /\ clock = StartTime
    /\ lock = "free"
    /\ x_cmd = 0 /\ z_cmd = 0 /\ last_any_key_time = StartTime
    /\ w_exp = 0 /\ s_exp = 0 /\ a_exp = 0 /\ d_exp = 0
    /\ pc_ui = "start"
    /\ ui = UiIdle
    /\ flush = <<>>
    /\ pc_hb = "idle"
    /\ hb = HbIdle
    /\ adv = 0
    /\ nkeys = 0
    /\ seen = [w |-> 0, s |-> 0, x |-> 0, dir |-> 0, any |-> 0, stops |-> 0,
               cut |-> 0]
    /\ paced = FALSE

\* the same program when its sampling ticks are atomic and paced
PacedInit ==
    /\ clock = StartTime
    /\ lock = "free"
    /\ x_cmd = 0 /\ z_cmd = 0 /\ last_any_key_time = StartTime
    /\ w_exp = 0 /\ s_exp = 0 /\ a_exp = 0 /\ d_exp = 0
    /\ pc_ui = "start"
    /\ ui = UiIdle
    /\ flush = <<>>
    /\ pc_hb = "idle"
    /\ hb = HbIdle
    /\ adv = 0
    /\ nkeys = 0
    /\ seen = [w |-> 0, s |-> 0, x |-> 0, dir |-> 0, any |-> 0, stops |-> 0,
               cut |-> 0]
    /\ paced = TRUE

\* ---- main ---------------------------------------------------------------
\* open the port, start the heartbeat thread, enter ui_loop
MainStart ==
    /\ pc_ui = "start"
    /\ pc_ui' = "tick"
    /\ pc_hb' = "now"
    /\ UNCHANGED <<clock, lock, x_cmd, z_cmd, last_any_key_time, w_exp, s_exp,
                   a_exp, d_exp, ui, flush, hb, adv, nkeys, seen, paced>>

\* ---- ui_loop ------------------------------------------------------------
\* one sampling tick up to the lock: read the time, drain the pending key
\* codes, derive the held flags, resolve the command, clear holds on stop
UiTick ==
    /\ pc_ui = "tick"
    /\ \E d \in AfterSleep(ui.now, UI_SLEEP), batch \in Batches :
        LET now == Time(d)
            st == Drain([w_exp |-> w_exp, s_exp |-> s_exp, a_exp |-> a_exp,
                         d_exp |-> d_exp, got_any |-> FALSE,
                         stop_now |-> FALSE, quit_now |-> FALSE], batch, now)
            w_on == IsHeld(now, st.w_exp)
            s_on == IsHeld(now, st.s_exp)
            a_on == IsHeld(now, st.a_exp)
            d_on == IsHeld(now, st.d_exp)
            cmd == Resolve(w_on, s_on, a_on, d_on, st.stop_now)
        IN  /\ Advance(d) <= MaxAdvance
            /\ InPace(now) /\ UiMayTick
            /\ adv' = Advance(d)
            /\ nkeys + Len(batch) <= MaxKeys
            /\ clock' = now
            /\ nkeys' = nkeys + Len(batch)
            /\ w_exp' = ClearHolds(st.stop_now, st.w_exp)
            /\ s_exp' = ClearHolds(st.stop_now, st.s_exp)
            /\ a_exp' = ClearHolds(st.stop_now, st.a_exp)
            /\ d_exp' = ClearHolds(st.stop_now, st.d_exp)
            /\ ui' = [now |-> now,
                      got_any |-> Activity(st.got_any, st.stop_now),
                      stop_now |-> st.stop_now, quit_now |-> st.quit_now,
                      w_on |-> w_on, s_on |-> s_on, a_on |-> a_on,
                      d_on |-> d_on, new_x |-> cmd.x, new_z |-> cmd.z,
                      batch |-> batch]
            /\ seen' = Seen(batch, now)
    /\ pc_ui' = "lock"
    /\ UNCHANGED <<lock, x_cmd, z_cmd, last_any_key_time, flush, pc_hb, hb,
                   paced>>

\* with lock:
UiAcquire ==
    /\ pc_ui = "lock"
    /\ CanAcquire(lock)
    /\ lock' = "ui"
    /\ pc_ui' = "wx"
    /\ UNCHANGED <<clock, x_cmd, z_cmd, last_any_key_time, w_exp, s_exp, a_exp,
                   d_exp, ui, flush, pc_hb, hb, adv, nkeys, seen, paced>>

UiWriteX ==
    /\ pc_ui = "wx"
    /\ x_cmd' = ui.new_x
    /\ pc_ui' = "wz"
    /\ UNCHANGED <<clock, lock, z_cmd, last_any_key_time, w_exp, s_exp, a_exp,
                   d_exp, ui, flush, pc_hb, hb, adv, nkeys, seen, paced>>

UiWriteZ ==
    /\ pc_ui = "wz"
    /\ z_cmd' = ui.new_z
    /\ pc_ui' = "wt"
    /\ UNCHANGED <<clock, lock, x_cmd, last_any_key_time, w_exp, s_exp, a_exp,
                   d_exp, ui, flush, pc_hb, hb, adv, nkeys, seen, paced>>

\* if got_any: last_any_key_time = now; then the with block ends
UiWriteT ==
    /\ pc_ui = "wt"
    /\ last_any_key_time' = StampActivity(ui.got_any, ui.now, last_any_key_time)
    /\ lock' = Release("ui")
    /\ pc_ui' = "render"
    /\ UNCHANGED <<clock, x_cmd, z_cmd, w_exp, s_exp, a_exp, d_exp, ui, flush,
                   pc_hb, hb, adv, nkeys, seen, paced>>

\* the status display, then either the quit branch or time.sleep(0.02)
UiRender ==
    /\ pc_ui = "render"
    /\ pc_ui' = IF ui.quit_now THEN "qlock" ELSE "tick"
    /\ UNCHANGED <<clock, lock, x_cmd, z_cmd, last_any_key_time, w_exp, s_exp,
                   a_exp, d_exp, ui, flush, pc_hb, hb, adv, nkeys, seen, paced>>

\* stop on exit
UiQuitAcquire ==
    /\ pc_ui = "qlock"
    /\ CanAcquire(lock)
    /\ lock' = "ui"
    /\ pc_ui' = "qx"
    /\ UNCHANGED <<clock, x_cmd, z_cmd, last_any_key_time, w_exp, s_exp, a_exp,
                   d_exp, ui, flush, pc_hb, hb, adv, nkeys, seen, paced>>

UiQuitX ==
    /\ pc_ui = "qx"
    /\ x_cmd' = QuitCommand.x
    /\ pc_ui' = "qz"
    /\ UNCHANGED <<clock, lock, z_cmd, last_any_key_time, w_exp, s_exp, a_exp,
                   d_exp, ui, flush, pc_hb, hb, adv, nkeys, seen, paced>>

UiQuitZ ==
    /\ pc_ui = "qz"
    /\ z_cmd' = QuitCommand.z
    /\ pc_ui' = "qt"
    /\ UNCHANGED <<clock, lock, x_cmd, last_any_key_time, w_exp, s_exp, a_exp,
                   d_exp, ui, flush, pc_hb, hb, adv, nkeys, seen, paced>>

\* last_any_key_time = time.time(); the with block ends; ui_loop returns
UiQuitT ==
    /\ pc_ui = "qt"
    /\ \E d \in Delays :
        /\ Advance(d) <= MaxAdvance
        /\ WithinTick(d)
        /\ adv' = Advance(d)
        /\ clock' = Time(d)
        /\ last_any_key_time' = Time(d)
    /\ lock' = Release("ui")
    /\ pc_ui' = "flush1"
    /\ UNCHANGED <<x_cmd, z_cmd, w_exp, s_exp, a_exp, d_exp, ui, flush, pc_hb,
                   hb, nkeys, seen, paced>>

\* ---- main after ui_loop: the stop flush ---------------------------------
\* first send_cmd(ser, 0.0, 0.0); an exception leaves the try block
MainFlush1 ==
    /\ pc_ui = "flush1"
    /\ \E ok \in BOOLEAN :
        /\ flush' = Append(flush, send_cmd(0, 0, ok))
        /\ pc_ui' = AfterFlush1(ok)
    /\ UNCHANGED <<clock, lock, x_cmd, z_cmd, last_any_key_time, w_exp, s_exp,
                   a_exp, d_exp, ui, pc_hb, hb, adv, nkeys, seen, paced>>

\* time.sleep(0.05)
MainPause ==
    /\ pc_ui = "pause"
    /\ pc_ui' = "flush2"
    /\ UNCHANGED <<clock, lock, x_cmd, z_cmd, last_any_key_time, w_exp, s_exp,
                   a_exp, d_exp, ui, flush, pc_hb, hb, adv, nkeys, seen, paced>>

\* second send_cmd(ser, 0.0, 0.0); main returns and the process ends
MainFlush2 ==
    /\ pc_ui = "flush2"
    /\ \E ok \in BOOLEAN : flush' = Append(flush, send_cmd(0, 0, ok))
    /\ pc_ui' = "done"
    /\ UNCHANGED <<clock, lock, x_cmd, z_cmd, last_any_key_time, w_exp, s_exp,
                   a_exp, d_exp, ui, pc_hb, hb, adv, nkeys, seen, paced>>

\* ---- control_loop (daemon thread: it runs until the process ends) -------
\* now = time.time(); x, z and t_any of the previous iteration are assigned
\* again before they are read, and msg was local to its send_cmd call
HbNow ==
    /\ pc_hb = "now" /\ pc_ui # "done" /\ HbMayRun
    /\ \E d \in AfterSleep(hb.now, HB_SLEEP) :
        /\ Advance(d) <= MaxAdvance
        /\ InPace(Time(d))
        /\ adv' = Advance(d)
        /\ clock' = Time(d)
        /\ hb' = [HbIdle EXCEPT !.now = Time(d)]
    /\ pc_hb' = "lock"
    /\ UNCHANGED <<lock, x_cmd, z_cmd, last_any_key_time, w_exp, s_exp,
                   a_exp, d_exp, pc_ui, ui, flush, nkeys, seen, paced>>

HbAcquire ==
    /\ pc_hb = "lock" /\ pc_ui # "done" /\ HbMayRun
    /\ CanAcquire(lock)
    /\ lock' = "hb"
    /\ pc_hb' = "rx"
    /\ UNCHANGED <<clock, x_cmd, z_cmd, last_any_key_time, w_exp, s_exp, a_exp,
                   d_exp, pc_ui, ui, flush, hb, adv, nkeys, seen, paced>>

HbReadX ==
    /\ pc_hb = "rx" /\ pc_ui # "done" /\ HbMayRun
    /\ hb' = [hb EXCEPT !.x = x_cmd]
    /\ pc_hb' = "rz"
    /\ UNCHANGED <<clock, lock, x_cmd, z_cmd, last_any_key_time, w_exp, s_exp,
                   a_exp, d_exp, pc_ui, ui, flush, adv, nkeys, seen, paced>>

HbReadZ ==
    /\ pc_hb = "rz" /\ pc_ui # "done" /\ HbMayRun
    /\ hb' = [hb EXCEPT !.z = z_cmd]
    /\ pc_hb' = "rt"
    /\ UNCHANGED <<clock, lock, x_cmd, z_cmd, last_any_key_time, w_exp, s_exp,
                   a_exp, d_exp, pc_ui, ui, flush, adv, nkeys, seen, paced>>

\* t_any = last_any_key_time; the with block ends
HbReadT ==
    /\ pc_hb = "rt" /\ pc_ui # "done" /\ HbMayRun
    /\ hb' = [hb EXCEPT !.t_any = last_any_key_time]
    /\ lock' = Release("hb")
    /\ pc_hb' = "deadman"
    /\ UNCHANGED <<clock, x_cmd, z_cmd, last_any_key_time, w_exp, s_exp, a_exp,
                   d_exp, pc_ui, ui, flush, adv, nkeys, seen, paced>>

\* the override written back to the stored velocity
HbSendStoring ==
    /\ pc_hb = "deadman" /\ pc_ui # "done" /\ HbMayRun
    /\ \E ok \in BOOLEAN :
        LET x == Deadman(hb.now, hb.t_any, hb.x)
            z == Deadman(hb.now, hb.t_any, hb.z)
        IN  /\ hb' = [hb EXCEPT !.x = x, !.z = z,
                                !.msg = <<send_cmd(x, z, ok)>>]
            /\ x_cmd' = x /\ z_cmd' = z
            /\ pc_hb' = AfterSend(ok)
    /\ seen' = Cut(hb.now, hb.t_any)
    /\ UNCHANGED <<clock, lock, last_any_key_time, w_exp, s_exp,
                   a_exp, d_exp, pc_ui, ui, flush, adv, nkeys, paced>>

\* absolute deadman safety, then try: send_cmd(ser, x, z) except: pass
HbSend ==
    /\ pc_hb = "deadman" /\ pc_ui # "done" /\ HbMayRun
    /\ \E ok \in BOOLEAN :
        LET x == Deadman(hb.now, hb.t_any, hb.x)
            z == Deadman(hb.now, hb.t_any, hb.z)
        IN  /\ hb' = [hb EXCEPT !.x = x, !.z = z,
                                !.msg = <<send_cmd(x, z, ok)>>]
            /\ pc_hb' = AfterSend(ok)
    /\ seen' = Cut(hb.now, hb.t_any)
    /\ UNCHANGED <<clock, lock, x_cmd, z_cmd, last_any_key_time, w_exp, s_exp,
                   a_exp, d_exp, pc_ui, ui, flush, adv, nkeys, paced>>

\* time.sleep(dt)
HbSleep ==
    /\ pc_hb = "sleep" /\ pc_ui # "done" /\ HbMayRun
    /\ pc_hb' = "now"
    /\ UNCHANGED <<clock, lock, x_cmd, z_cmd, last_any_key_time, w_exp, s_exp,
                   a_exp, d_exp, pc_ui, ui, flush, hb, adv, nkeys, seen, paced>>

Next ==
    \/ MainStart
    \/ UiTick \/ UiAcquire \/ UiWriteX \/ UiWriteZ \/ UiWriteT \/ UiRender
    \/ UiQuitAcquire \/ UiQuitX \/ UiQuitZ \/ UiQuitT
    \/ MainFlush1 \/ MainPause \/ MainFlush2
    \/ HbNow \/ HbAcquire \/ HbReadX \/ HbReadZ \/ HbReadT \/ HbSend
    \/ HbSleep

Spec == Init /\ [][Next]_vars

\* the runs with atomic sampling ticks less than DEADMAN_S - KEY_HOLD_S apart
PacedSpec == PacedInit /\ [][Next]_vars

\* the steps of the heartbeat thread and of the main thread
HbNext ==
    \/ HbNow \/ HbAcquire \/ HbReadX \/ HbReadZ \/ HbReadT \/ HbSend
    \/ HbSleep
UiNext ==
    \/ MainStart
    \/ UiTick \/ UiAcquire \/ UiWriteX \/ UiWriteZ \/ UiWriteT \/ UiRender
    \/ UiQuitAcquire \/ UiQuitX \/ UiQuitZ \/ UiQuitT
    \/ MainFlush1 \/ MainPause \/ MainFlush2

\* both threads keep being scheduled: a thread that can take a step
\* without interruption eventually takes one
FairSpec == Spec /\ WF_vars(HbNext) /\ WF_vars(UiNext)

\* ---- vocabulary of the properties ---------------------------------------
\* the frames the heartbeat and main handed to the transport
HbFrames == {hb.msg[i] : i \in 1..Len(hb.msg)}
MainFrames == {flush[i] : i \in 1..Len(flush)}
IsZero(f) == f.X = 0 /\ f.Z = 0

\* the sampling loop is inside the locked write of its current tick
UiWriting == pc_ui \in {"lock", "wx", "wz", "wt"}

\* ---- C1 -----------------------------------------------------------------
\* C1: a heartbeat tick whose time is more than DEADMAN_S later than the
\* last-activity timestamp of its snapshot hands a zero frame to the
\* transport, whatever velocity is stored.
C1_DeadmanCutoff ==
    \A f \in HbFrames : hb.now - hb.t_any > DEADMAN_S => IsZero(f)

\* a heartbeat tick past the deadman window sends zero while the stored
\* velocity is not zero
C1_Witness ==
    /\ pc_hb = "sleep" /\ HbFrames # {}
    /\ hb.now - hb.t_any > DEADMAN_S
    /\ x_cmd # 0
    /\ \A f \in HbFrames : IsZero(f)

\* ---- C2 -----------------------------------------------------------------
\* C2: every heartbeat frame of a tick later than DEADMAN_S after the last
\* observed key code is zero; and a sampling tick later than KEY_HOLD_S after
\* the last directional event resolves to (0,0), which is the stored velocity
\* from the end of its locked write on.
C2_ReleaseLeadsToStop ==
    /\ \A f \in HbFrames : hb.now > seen.any + DEADMAN_S => IsZero(f)
    /\ ui.now > seen.dir + KEY_HOLD_S =>
        /\ ui.new_x = 0 /\ ui.new_z = 0
        /\ ~UiWriting => x_cmd = 0 /\ z_cmd = 0

\* Forward was held, the hold lapsed, the sampler stored (0,0), and a
\* heartbeat tick later than the deadman window sent zero
C2_Witness ==
    /\ seen.w > 0 /\ seen.dir = seen.w /\ seen.s = 0 /\ seen.x = 0
    /\ pc_ui = "render" /\ ui.now > seen.dir + KEY_HOLD_S
    /\ x_cmd = 0 /\ z_cmd = 0
    /\ pc_hb = "sleep" /\ HbFrames # {}
    /\ hb.now > seen.any + DEADMAN_S
    /\ \A f \in HbFrames : IsZero(f)

\* ---- C3 -----------------------------------------------------------------
\* the fixed policy, each axis the difference of its two keys
Held01(b) == IF b THEN 1 ELSE 0
Policy(w_on, s_on, a_on, d_on, stop_now) ==
    IF stop_now THEN [x |-> 0, z |-> 0]
    ELSE [x |-> (Held01(w_on) - Held01(s_on)) * MAX_X,
          z |-> (Held01(a_on) - Held01(d_on)) * MAX_Z]

\* C3: the resolver equals the fixed policy on all 32 inputs, and the command
\* of every sampling tick is the policy's value for that tick's held flags
\* and stop flag.
C3_ResolverPolicy ==
    /\ \A w_on, s_on, a_on, d_on, stop_now \in BOOLEAN :
        Resolve(w_on, s_on, a_on, d_on, stop_now)
            = Policy(w_on, s_on, a_on, d_on, stop_now)
    /\ [x |-> ui.new_x, z |-> ui.new_z]
        = Policy(ui.w_on, ui.s_on, ui.a_on, ui.d_on, ui.stop_now)

\* Forward and TurnLeft held together: the stored command is an arc
C3_Witness ==
    /\ pc_ui = "render"
    /\ ui.w_on /\ ui.a_on /\ ~ui.s_on /\ ~ui.d_on /\ ~ui.stop_now
    /\ x_cmd = MAX_X /\ z_cmd = MAX_Z

\* ---- C4 -----------------------------------------------------------------
\* C4: the stored velocity and every frame handed to the transport have X in
\* {-MAX_X, 0, +MAX_X} and Z in {-MAX_Z, 0, +MAX_Z}.
C4_VelocityBound ==
    /\ x_cmd \in {0 - MAX_X, 0, MAX_X}
    /\ z_cmd \in {0 - MAX_Z, 0, MAX_Z}
    /\ \A f \in HbFrames \cup MainFrames :
        /\ f.X \in {0 - MAX_X, 0, MAX_X}
        /\ f.Z \in {0 - MAX_Z, 0, MAX_Z}

\* the heartbeat sent a frame with both components at their extremes
C4_Witness ==
    /\ x_cmd = 0 - MAX_X /\ z_cmd = MAX_Z
    /\ \E f \in HbFrames : f.X = 0 - MAX_X /\ f.Z = MAX_Z

\* ---- C5 -----------------------------------------------------------------
\* C5 as stated: whenever the most recent Forward event is strictly newer than
\* now - KEY_HOLD_S and no Back event is equally recent, Forward is held.
C5_HoldInferenceAsStated ==
    (seen.w > 0 /\ seen.w > ui.now - KEY_HOLD_S /\ seen.s # seen.w) => ui.w_on

\* C5: whenever the most recent Forward event is not older than
\* now - KEY_HOLD_S, no Back event is equally recent, and no Stop code was
\* drained at or after the time of that Forward event, Forward is held.
C5_HoldInference ==
    (seen.w > 0 /\ seen.w >= ui.now - KEY_HOLD_S /\ seen.s # seen.w
        /\ seen.x < seen.w) => ui.w_on

\* Forward is held in a tick later than the one that drained it
C5_Witness ==
    /\ seen.w > 0 /\ ui.now > seen.w /\ seen.w >= ui.now - KEY_HOLD_S
    /\ seen.s # seen.w /\ seen.x < seen.w
    /\ ui.w_on /\ ui.new_x = MAX_X

\* ---- C6 -----------------------------------------------------------------
HasStop(batch) == \E i \in 1..Len(batch) : batch[i] = "x"
NoneHeld == ~ui.w_on /\ ~ui.s_on /\ ~ui.a_on /\ ~ui.d_on

\* C6: a sampling tick whose batch contains a Stop code, wherever it sits in
\* the batch, resolves to (0,0), resets the four expiries to 0.0 (the past),
\* counts as activity and stores (0,0) with its own time as the activity
\* timestamp; and in a later tick, with no directional code drained after the
\* Stop tick, no key is held.
C6_StopCancels ==
    /\ HasStop(ui.batch) =>
        /\ ui.stop_now /\ ui.got_any
        /\ ui.new_x = 0 /\ ui.new_z = 0
        /\ holds = <<0, 0, 0, 0>> /\ 0 < ui.now
        /\ ~UiWriting => /\ x_cmd = 0 /\ z_cmd = 0
                         /\ last_any_key_time >= ui.now
                         /\ pc_ui = "render" => last_any_key_time = ui.now
    /\ (seen.x > 0 /\ ui.now > seen.x /\ seen.dir <= seen.x) => NoneHeld

\* Forward was drained in the very tick of the Stop; one tick later, well
\* inside the hold window, it is not held
C6_Witness ==
    /\ seen.x > 0 /\ seen.w = seen.x
    /\ pc_ui = "render"
    /\ ui.now > seen.x /\ ui.now <= seen.w + KEY_HOLD_S
    /\ NoneHeld /\ x_cmd = 0 /\ z_cmd = 0

\* ---- C7 -----------------------------------------------------------------
\* ui_loop has returned
Returned == pc_ui \in {"flush1", "pause", "flush2", "done"}

\* C7: when ui_loop has returned (which it does only on Quit) the stored
\* velocity is (0,0) and the activity timestamp is not earlier than the time
\* of the tick that observed Quit; the quit writes are made with the lock
\* held; and no step after the return changes the shared state.
C7_QuitSafeState ==
    /\ [](Returned =>
            /\ ui.quit_now
            /\ x_cmd = 0 /\ z_cmd = 0
            /\ last_any_key_time >= ui.now)
    /\ [](pc_ui \in {"qx", "qz", "qt"} => lock = "ui")
    /\ [][Returned => UNCHANGED shared]_vars

\* the Quit tick had stored a non-zero velocity, which the quit branch zeroed
C7_Witness ==
    /\ Returned
    /\ ui.quit_now /\ ui.new_x # 0
    /\ x_cmd = 0 /\ z_cmd = 0
    /\ last_any_key_time >= ui.now

\* ---- C8 -----------------------------------------------------------------
\* C8 as stated: when the process has ended, main has handed two zero frames
\* to the transport, whether or not a write failed.
C8_DoubleFlush ==
    pc_ui = "done" =>
        /\ Len(flush) = 2
        /\ \A f \in MainFrames : IsZero(f)

\* ---- C9 -----------------------------------------------------------------
\* the heartbeat thread attempted a transmission whose write raised
SendFailed == pc_hb = "sleep" /\ \E f \in HbFrames : ~f.ok

\* C9: a heartbeat send, whether the write returns or raises, changes no
\* shared state and no hold expiry and leaves the thread at the sleep that
\* precedes its next tick; the thread is always at a point of its loop; and,
\* under fair scheduling, a failed transmission is followed by the next one
\* (unless the process ends first or the clock can no longer advance).
C9_HeartbeatSurvivesFailure ==
    /\ [](pc_hb \in {"idle", "now", "lock", "rx", "rz", "rt", "deadman",
                     "sleep"})
    /\ [][pc_hb = "deadman" /\ pc_hb' # "deadman" =>
            /\ pc_hb' = "sleep"
            /\ UNCHANGED <<shared, holds, lock>>]_vars
    /\ [][pc_hb = "sleep" /\ pc_hb' # "sleep" => pc_hb' = "now"]_vars
    /\ (SendFailed ~> (pc_hb = "deadman" \/ pc_ui = "done"
                         \/ adv = MaxAdvance))

\* a heartbeat write of a non-zero command has raised after the first tick:
\* the exception was swallowed and the thread is at the sleep that precedes
\* its next tick
C9_Witness ==
    /\ pc_hb = "sleep" /\ \E f \in HbFrames : ~f.ok /\ f.X = MAX_X
    /\ hb.now > StartTime

\* ---- C10 ----------------------------------------------------------------
OnlyUnknown(batch) ==
    /\ batch # <<>>
    /\ \A i \in 1..Len(batch) :
        batch[i] \notin {"w", "s", "a", "d", "x", "q"}

\* what a tick with no codes resolves at time now from the current expiries
EmptyTick(now) ==
    Resolve(IsHeld(now, w_exp), IsHeld(now, s_exp), IsHeld(now, a_exp),
            IsHeld(now, d_exp), FALSE)

\* C10 as stated: a sampling tick that drains only unknown codes leaves the
\* expiries, the stored velocity and the activity timestamp as a tick with no
\* codes at the same time would.
C10_UnknownIgnoredAsStated ==
    /\ [][pc_ui = "tick" /\ pc_ui' = "lock" /\ OnlyUnknown(ui'.batch) =>
            /\ holds' = holds
            /\ ui'.new_x = EmptyTick(ui'.now).x
            /\ ui'.new_z = EmptyTick(ui'.now).z]_vars
    /\ [](pc_ui = "render" /\ OnlyUnknown(ui.batch) =>
            x_cmd = ui.new_x /\ z_cmd = ui.new_z)
    /\ [][pc_ui = "wt" /\ pc_ui' = "render" /\ OnlyUnknown(ui.batch) =>
            last_any_key_time' = last_any_key_time]_vars

\* C10: a sampling tick that drains only unknown codes leaves the expiries
\* and the stored velocity as a tick with no codes at the same time would,
\* but it counts as activity: it sets the activity timestamp to its own time.
C10_UnknownIgnored ==
    /\ [][pc_ui = "tick" /\ pc_ui' = "lock" /\ OnlyUnknown(ui'.batch) =>
            /\ holds' = holds
            /\ ui'.new_x = EmptyTick(ui'.now).x
            /\ ui'.new_z = EmptyTick(ui'.now).z]_vars
    /\ [](pc_ui = "render" /\ OnlyUnknown(ui.batch) =>
            x_cmd = ui.new_x /\ z_cmd = ui.new_z)
    /\ [][pc_ui = "wt" /\ pc_ui' = "render" /\ OnlyUnknown(ui.batch) =>
            last_any_key_time' = ui.now]_vars

\* Forward, drained by an earlier tick, stays held and stored through a tick
\* that drains only an unknown code, and that tick stamps the activity time
C10_Witness ==
    /\ pc_ui = "render" /\ OnlyUnknown(ui.batch)
    /\ seen.w > 0 /\ seen.w < ui.now
    /\ ui.w_on /\ x_cmd = MAX_X
    /\ last_any_key_time = ui.now

\* ---- C11 ----------------------------------------------------------------
\* the sampling side is inside one of its two locked writes
UiInWrite == pc_ui \in {"wx", "wz", "wt", "qx", "qz", "qt"}
\* the heartbeat is inside its locked copy
HbInRead == pc_hb \in {"rx", "rz", "rt"}

\* C11: the shared triple changes only inside a locked write of the sampling
\* side; the heartbeat's copy and a locked write never overlap; and when the
\* heartbeat's copy ends, the triple (x, z, t_any) it holds is the shared
\* triple of that moment, at which no write is in progress: the triple left by
\* the latest completed locked write, or the initial one.
C11_ConsistentSnapshot ==
    /\ [](~(UiInWrite /\ HbInRead))
    /\ [][shared' # shared => UiInWrite]_vars
    /\ [][pc_hb = "rt" /\ pc_hb' = "deadman" =>
            /\ <<hb'.x, hb'.z, hb'.t_any>> = shared
            /\ ~UiInWrite]_vars

\* the heartbeat is in the middle of its copy, having read x of a non-zero
\* command, while the sampling loop waits at the lock with a different command
C11_Witness ==
    /\ pc_hb = "rt" /\ lock = "hb"
    /\ hb.x = x_cmd /\ hb.x # 0
    /\ pc_ui = "lock" /\ ui.new_x # x_cmd

\* ---- C12 ----------------------------------------------------------------
\* a thread has asked for the lock and not yet got it
UiWaiting == pc_ui \in {"lock", "qlock"}
HbWaiting == pc_hb = "lock"

\* C12: a thread holds the lock exactly while it is inside its locked copy, so
\* never at a key read, a render, a transport write or a sleep; a waiting
\* thread waits only for a holder that is inside its copy; the lock is taken
\* only by a thread that asked for it, and a thread stops waiting only by
\* taking the lock; and, under fair scheduling, no thread waits for the lock
\* forever and no thread holds it forever (for the heartbeat: unless the
\* process ends first).
C12_NeitherBlocks ==
    /\ [](lock \in {"free", "ui", "hb"})
    /\ [](lock = "ui" <=> UiInWrite)
    /\ [](lock = "hb" <=> HbInRead)
    /\ [](UiWaiting /\ lock # "free" => HbInRead)
    /\ [](HbWaiting /\ lock # "free" => UiInWrite)
    /\ [][lock' = "ui" /\ lock # "ui" => UiWaiting]_vars
    /\ [][lock' = "hb" /\ lock # "hb" => HbWaiting]_vars
    /\ [][UiWaiting /\ ~UiWaiting' => lock' = "ui"]_vars
    /\ [][HbWaiting /\ ~HbWaiting' => lock' = "hb"]_vars
    /\ []<>(~UiWaiting /\ lock # "ui")
    /\ []<>((~HbWaiting /\ lock # "hb") \/ pc_ui = "done")

\* the quit branch waits for the lock while the heartbeat is inside its copy
C12_Witness ==
    /\ pc_ui = "qlock" /\ lock = "hb" /\ pc_hb = "rz"

\* ---- C13 ----------------------------------------------------------------
\* the heartbeat thread, respectively the main thread, takes the step
HbStep == pc_hb' # pc_hb /\ pc_hb # "idle"
UiStep == pc_ui' # pc_ui

\* C13: no step of the heartbeat thread, with or without the deadman override,
\* changes the stored velocity, the activity timestamp or a hold expiry; the
\* override changes only the heartbeat's own copy and the frame built from it;
\* and the stored velocity and the timestamp change only in steps of the
\* sampling side.
C13_HeartbeatReadOnly ==
    /\ [][HbStep => UNCHANGED <<shared, holds>>]_vars
    /\ [][shared' # shared => UiStep /\ UiInWrite]_vars
    /\ [][pc_hb = "deadman" /\ hb.now - hb.t_any > DEADMAN_S /\ HbStep =>
            /\ hb'.x = 0 /\ hb'.z = 0
            /\ \A i \in 1..Len(hb'.msg) : IsZero(hb'.msg[i])
            /\ UNCHANGED <<shared, holds>>]_vars

\* the override zeroed the frame of a turning command: the stored velocity,
\* the timestamp the heartbeat read and the TurnLeft expiry are still in place
C13_Witness ==
    /\ pc_hb = "sleep" /\ hb.now - hb.t_any > DEADMAN_S
    /\ \E f \in HbFrames : IsZero(f)
    /\ z_cmd = MAX_Z /\ a_exp > 0
    /\ last_any_key_time = hb.t_any

\* ---- C14 ----------------------------------------------------------------
\* the frame a heartbeat tick at time now builds from the stored state
StateFrame(now) ==
    send_cmd(Deadman(now, last_any_key_time, x_cmd),
             Deadman(now, last_any_key_time, z_cmd), TRUE)

\* C14: after a sampling tick that drained a Stop code, be it the first or a
\* further one in a row, the resolved and the stored velocity are (0,0), the
\* four expiries are 0.0 and so in the past, and a heartbeat frame built from
\* the stored state at any time is the zero frame; a second Stop tick in a
\* row leaves the expiries, the resolved command and the stored velocity as
\* the first left them.
C14_StopIdempotent ==
    /\ [](seen.stops >= 1 =>
            /\ ui.new_x = 0 /\ ui.new_z = 0
            /\ holds = <<0, 0, 0, 0>> /\ 0 < ui.now
            /\ ~UiWriting =>
                /\ x_cmd = 0 /\ z_cmd = 0
                /\ \A d \in Delays : StateFrame(Time(d)) = send_cmd(0, 0, TRUE))
    /\ [][pc_ui = "tick" /\ seen.stops >= 1 /\ seen'.stops = seen.stops + 1 =>
            /\ holds' = holds
            /\ ui'.new_x = ui.new_x /\ ui'.new_z = ui.new_z]_vars
    /\ [][seen.stops >= 2 /\ seen'.stops = seen.stops =>
            UNCHANGED <<x_cmd, z_cmd>>]_vars

\* the write of a second Stop tick in a row is complete, and the heartbeat
\* has sent the zero frame it built from the state the first one left
C14_Witness ==
    /\ seen.stops = 2 /\ pc_ui = "render"
    /\ x_cmd = 0 /\ z_cmd = 0 /\ last_any_key_time = ui.now
    /\ pc_hb = "sleep" /\ hb.t_any < ui.now /\ hb.t_any > StartTime
    /\ \E f \in HbFrames : IsZero(f) /\ f.ok

\* ---- C15 ----------------------------------------------------------------
\* C15: a sampling tick counts as activity exactly when it drained at least
\* one code; its locked write sets the activity timestamp to the tick's time
\* in that case and leaves it unchanged otherwise; in both cases the stored
\* velocity after the write is the command the tick resolved; and no step
\* makes the timestamp smaller.
C15_ActivityStamping ==
    /\ [](pc_ui \in {"lock", "wx", "wz", "wt", "render"} =>
            (ui.got_any <=> ui.batch # <<>>))
    /\ [][pc_ui = "wt" /\ pc_ui' = "render" =>
            last_any_key_time' = IF ui.batch # <<>> THEN ui.now
                                 ELSE last_any_key_time]_vars
    /\ [](pc_ui = "render" => x_cmd = ui.new_x /\ z_cmd = ui.new_z)
    /\ [][last_any_key_time' >= last_any_key_time]_vars

\* a tick with no codes, later than the hold window after the Forward event,
\* has replaced the stored Forward command by (0,0) and left the timestamp at
\* the time of that event
C15_Witness ==
    /\ pc_ui = "render" /\ ui.batch = <<>>
    /\ seen.w > 0 /\ seen.any = seen.w /\ seen.x = 0 /\ seen.s = 0
    /\ ui.now > seen.w + KEY_HOLD_S
    /\ x_cmd = 0 /\ z_cmd = 0
    /\ last_any_key_time = seen.w /\ last_any_key_time < ui.now

\* ---- C16 ----------------------------------------------------------------
\* C16 (in the runs with atomic sampling ticks less than DEADMAN_S -
\* KEY_HOLD_S apart): DEADMAN_S exceeds KEY_HOLD_S; a heartbeat tick whose
\* time is more than DEADMAN_S later than the activity timestamp of its
\* snapshot has read the velocity (0,0); and so the deadman override never
\* changes the velocity of a snapshot.
C16_DecayBeforeDeadman ==
    /\ [](paced /\ DEADMAN_S > KEY_HOLD_S)
    /\ [](pc_hb = "deadman" /\ hb.now - hb.t_any > DEADMAN_S =>
            hb.x = 0 /\ hb.z = 0)
    /\ [][pc_hb = "deadman" /\ pc_hb' = "sleep" =>
            hb'.x = hb.x /\ hb'.z = hb.z]_vars

\* Forward was held and stored, the hold lapsed and a later tick stored
\* (0,0); the heartbeat tick past the deadman window found the velocity zero
C16_Witness ==
    /\ paced
    /\ seen.w > 0 /\ seen.any = seen.w /\ seen.x = 0 /\ seen.s = 0
    /\ ui.now > seen.w + KEY_HOLD_S /\ x_cmd = 0
    /\ pc_hb = "deadman" /\ hb.t_any = seen.w
    /\ hb.now - hb.t_any > DEADMAN_S
    /\ hb.x = 0 /\ hb.z = 0

Forwardness(c) == c.L + c.R
Turning(c) == c.R - c.L

\* C18 as stated: for the held flags of every sampling tick, the wheel
\* command of ROSBOT.py's resolver turns exactly as it does with the same turn
\* keys and no forward-axis key held; and with Forward and TurnLeft held
\* (Back and TurnRight not) it both advances and turns.
C18_WheelsIndependent ==
    LET c == ResolveWheels(ui.w_on, ui.s_on, ui.a_on, ui.d_on, ui.stop_now)
        t == ResolveWheels(FALSE, FALSE, ui.a_on, ui.d_on, ui.stop_now)
    IN  /\ Turning(c) = Turning(t)
        /\ (ui.w_on /\ ~ui.s_on /\ ui.a_on /\ ~ui.d_on /\ ~ui.stop_now) =>
            Forwardness(c) > 0 /\ Turning(c) # 0

\* ---- C19 ----------------------------------------------------------------
\* C19 as stated: once ui_loop has returned, every frame the heartbeat or main
\* hands to the transport is a zero frame; when the process has ended after
\* both sends of the flush, the frame written last was main's zero frame; and
\* from the write of the tick that drained Quit on, the stored velocity the
\* heartbeat can read is (0,0).
C19_NoMotionAfterQuit ==
    /\ [][Returned /\ pc_hb = "deadman" /\ pc_hb' = "sleep" =>
            \A i \in 1..Len(hb'.msg) : IsZero(hb'.msg[i])]_vars
    /\ [](\A f \in MainFrames : IsZero(f))
    /\ [](ui.quit_now /\ pc_ui \in {"render", "qlock"} =>
            x_cmd = 0 /\ z_cmd = 0)

\* ---- C20 ----------------------------------------------------------------
\* every hold expiry is at most KEY_HOLD_S later than the activity timestamp
HoldsBounded ==
    \A exp \in {w_exp, s_exp, a_exp, d_exp} :
        exp <= last_any_key_time + KEY_HOLD_S

\* a non-zero stored velocity was written by a tick that ran not later than
\* KEY_HOLD_S after the activity timestamp
StoredBounded ==
    (x_cmd # 0 \/ z_cmd # 0) => ui.now <= last_any_key_time + KEY_HOLD_S

\* C20 as stated: in every reachable state the four expiries and the tick
\* that wrote a non-zero stored velocity are bounded by the activity
\* timestamp plus KEY_HOLD_S.
C20_HoldsBoundedAsStated == HoldsBounded /\ StoredBounded

\* C20: in every reachable state in which the sampling loop is not between
\* draining the codes of a tick and the end of that tick's locked write, the
\* four expiries and the tick that wrote a non-zero stored velocity are
\* bounded by the activity timestamp plus KEY_HOLD_S.
C20_HoldsBoundedBetweenTicks == ~UiWriting => HoldsBounded /\ StoredBounded

\* a tick later than the start has drained Forward and finished its write:
\* the Forward expiry is exactly KEY_HOLD_S after the activity timestamp and
\* the Forward command is stored
C20_Witness ==
    /\ pc_ui = "render"
    /\ last_any_key_time > StartTime
    /\ w_exp = last_any_key_time + KEY_HOLD_S
    /\ x_cmd = MAX_X /\ ui.now = last_any_key_time

====
